---- MODULE Spec2Model ----
(***************************************************************************)
(* Readiness-gated reverse proxy of src/server.py.                         *)
(*                                                                         *)
(* One asyncio event loop runs main(), the monitor_backend task and one    *)
(* proxy_handler/health_handler coroutine per request.  A coroutine runs   *)
(* without interruption from one await to the next, so every action below  *)
(* is one such segment.  wait_for_tcp and prewarm_local_ui are plain       *)
(* (blocking) functions: while one of them runs, the thread of the event   *)
(* loop is inside it and no other coroutine is resumed.                    *)
(*                                                                         *)
(* Time is counted in ticks of 0.5 s, the length of the time.sleep(0.5)    *)
(* between two attempts.                                                   *)
(*                                                                         *)
(* The network is the environment.  The backend is "down" (nothing bound   *)
(* on 127.0.0.1:PORT), "up" (accepts connections) or "stalled" (bound, but *)
(* connection attempts get no answer).  The proxy's own listener is bound  *)
(* on 0.0.0.0:PORT, the same port: a connection to 127.0.0.1:PORT made     *)
(* while the backend is down and the listener is open is accepted by the   *)
(* proxy's own listener.                                                   *)
(*                                                                         *)
(* Spec and LiveSpec are the whole program.  ExchangeSpec follows one      *)
(* forwarded request through proxy_handler with its header lines and body  *)
(* bytes, WaitSpec one call of wait_for_tcp with any timeout argument, and  *)
(* SetupSpec one run of the DuckDB setup function statement by statement.  *)
(***************************************************************************)
EXTENDS Integers, FiniteSets, Sequences, TLC

\* ---------------------------------------------------------------- bounds
\* number of requests that can be in flight at the same time
NReq == 2
\* number of body chunks the upstream sends at most in one response
MaxChunks == 2
\* number of bytes of a chunk and of a request body at most
MaxChunkLen == 2
\* number of header lines of a request or of a response at most
MaxHeaders == 2
\* largest timeout, in ticks, given to a wait_for_tcp call looked at on its own
MaxTimeout == 4
\* number of parquet files the glob of the bucket lists at most
MaxFiles == 2

Handlers == 1..NReq

\* ------------------------------------------------------------- constants
\* ticks per second: one tick is the 0.5 s sleep between two attempts
TicksPerSecond == 2
\* time.sleep(0.5) after a failed attempt, in ticks
RETRY_SLEEP == 1
\* socket.create_connection(..., timeout=1.0), in ticks
TCP_TRY_TIMEOUT == 1 * TicksPerSecond
\* BACKEND_TCP_WAIT = 45.0 seconds, in ticks
BACKEND_TCP_WAIT == 45 * TicksPerSecond
\* PREWARM_TOTAL = 30.0 seconds, in ticks
PREWARM_TOTAL == 30 * TicksPerSecond
\* PREWARM_TRY_TIMEOUT = 3.0 seconds, in ticks
PREWARM_TRY_TIMEOUT == 3 * TicksPerSecond
\* wait_for_tcp("127.0.0.1", UI_PORT, 1.0) of the monitor, in ticks
MONITOR_TCP_WAIT == 1 * TicksPerSecond
\* retry_after = 5
RETRY_AFTER == 5

Methods == {"GET", "POST"}
Paths == {"/health", "/"}
\* statuses the upstream answers with (a success and a redirect)
UpstreamStatuses == {200, 302}

VARIABLES
  phase,          \* position of main(): setup, wait, prewarm, bind, serving, stopping, exited
  elapsed,        \* ticks elapsed inside main's blocking wait_for_tcp / prewarm_local_ui
  backend_ready,  \* the global _backend_ready
  backend,        \* environment: "down", "up", "stalled"
  listening,      \* the proxy's TCPSite on 0.0.0.0:UI_PORT is open
  monitor,        \* monitor_backend task: none, waiting (at its await), probing, cancelled
  monElapsed,     \* ticks elapsed inside the monitor's wait_for_tcp
  req,            \* one record per handler slot
  everListening,  \* history: the backend has been bound at some time of this run
  pre_ok,         \* main's local pre_ok: "none" before prewarm_local_ui returned, then "true"/"false"
  exch,           \* one forwarded exchange of proxy_handler: headers and bodies on both sides
  call,           \* one call of wait_for_tcp: its arguments, its clock and its result
  setup           \* one run of the DuckDB setup function: its position and what it attempted

vars == <<phase, elapsed, backend_ready, backend, listening, monitor, monElapsed,
          req, everListening, pre_ok, exch, call, setup>>
mainVars == <<phase, elapsed, backend_ready, backend, listening, monitor, monElapsed,
              req, everListening, pre_ok>>

\* A free handler slot.
\*   pc         position of the handler coroutine
\*   target     history: what the client asked for, "GET /health" or "other"
\*   handler    the coroutine the router chose
\*   attempts   history: upstream requests issued (session.request calls)
\*   cause      history: the exception the handler caught or raised
\*   upstream   resp.status of the upstream answer, 0 before it
\*   prepared   status whose headers response.prepare sent to the client, 0 before
\*   status, origin, retryAfter, text   the response object the handler returned
Idle == [pc |-> "idle", target |-> "none", handler |-> "none", attempts |-> 0,
         cause |-> "none", upstream |-> 0, prepared |-> 0, status |-> 0,
         origin |-> "none", retryAfter |-> 0, text |-> ""]

\* ------------------------------------------------------------ the network
\* What a TCP connect to 127.0.0.1:UI_PORT meets.
ConnectResult ==
  IF backend = "up" THEN "backend"
  ELSE IF backend = "stalled" THEN "timeout"
  ELSE IF listening THEN "self"
  ELSE "refused"

Connected(r) == r \in {"backend", "self"}

\* ----------------------------------------------------------- wait_for_tcp
\* One evaluation of the loop condition and, when it holds, one attempt.
\* el is time.time() - start, timeout the argument.
\* wait_for_tcp with the deadline test letting through an attempt at the deadline.
wait_for_tcp_AtDeadline(el, timeout) ==
  IF ~(el <= timeout)
  THEN [done |-> TRUE, ok |-> FALSE, tried |-> FALSE, elapsed |-> el]
  ELSE IF Connected(ConnectResult)
  THEN [done |-> TRUE, ok |-> TRUE, tried |-> TRUE, elapsed |-> el]
  ELSE IF ConnectResult = "refused"
  THEN [done |-> FALSE, ok |-> FALSE, tried |-> TRUE, elapsed |-> el + RETRY_SLEEP]
  ELSE [done |-> FALSE, ok |-> FALSE, tried |-> TRUE,
        elapsed |-> el + TCP_TRY_TIMEOUT + RETRY_SLEEP]

\* tried: socket.create_connection was called in this turn of the loop.
wait_for_tcp(el, timeout) ==
  IF ~(el < timeout)
  THEN [done |-> TRUE, ok |-> FALSE, tried |-> FALSE, elapsed |-> el]
  ELSE IF Connected(ConnectResult)
  THEN [done |-> TRUE, ok |-> TRUE, tried |-> TRUE, elapsed |-> el]
  ELSE IF ConnectResult = "refused"
  THEN [done |-> FALSE, ok |-> FALSE, tried |-> TRUE, elapsed |-> el + RETRY_SLEEP]
  ELSE [done |-> FALSE, ok |-> FALSE, tried |-> TRUE,
        elapsed |-> el + TCP_TRY_TIMEOUT + RETRY_SLEEP]

\* ------------------------------------------------------- prewarm_local_ui
\* Outcomes of one urlopen + read(1) against the backend's root.
PrewarmOutcomes ==
  IF Connected(ConnectResult) THEN {"bytes", "http_error", "timeout"}
  ELSE IF ConnectResult = "timeout" THEN {"timeout"}
  ELSE {"refused"}

prewarm_local_ui(el, max_total, outcome) ==
  IF ~(el < max_total)
  THEN [done |-> TRUE, ok |-> FALSE, elapsed |-> el]
  ELSE IF outcome = "bytes"
  THEN [done |-> TRUE, ok |-> TRUE, elapsed |-> el]
  ELSE IF outcome = "timeout"
  THEN [done |-> FALSE, ok |-> FALSE, elapsed |-> el + PREWARM_TRY_TIMEOUT + RETRY_SLEEP]
  ELSE [done |-> FALSE, ok |-> FALSE, elapsed |-> el + RETRY_SLEEP]

\* ------------------------------------------------------------------ Init
InitMain ==
  /\ phase = "setup"
  /\ elapsed = 0
  /\ backend_ready = FALSE
  /\ backend = "down"
  /\ listening = FALSE
  /\ monitor = "none"
  /\ monElapsed = 0
  /\ req = [h \in Handlers |-> Idle]
  /\ everListening = FALSE
  /\ pre_ok = "none"

\* no exchange and no wait_for_tcp call is looked at in detail
NoExchange == [pc |-> "none"]
NoCall == [pc |-> "none"]
NoSetup == [pc |-> "none"]

Init ==
  /\ InitMain
  /\ exch = NoExchange
  /\ call = NoCall
  /\ setup = NoSetup

\* ----------------------------------------------------------- environment
\* The backend (the UI server started by duckdb_start_and_setup) binds,
\* stops answering, or goes away.
BackendChange ==
  /\ phase \in {"wait", "prewarm", "bind", "serving", "stopping"}
  /\ \E b \in {"down", "up", "stalled"} :
       /\ b # backend
       /\ backend' = b
       /\ everListening' = (everListening \/ b # "down")
  /\ UNCHANGED <<phase, elapsed, backend_ready, listening, monitor, monElapsed, req>>
  /\ UNCHANGED <<pre_ok, exch, call, setup>>

\* ------------------------------------------------------------------ main
\* main, step 1: await run_in_executor(duckdb_start_and_setup) returns.
main_setup ==
  /\ phase = "setup"
  /\ phase' = "wait"
  /\ elapsed' = 0
  /\ UNCHANGED <<backend_ready, backend, listening, monitor, monElapsed, req, everListening>>
  /\ UNCHANGED <<pre_ok, exch, call, setup>>

\* main_wait leaving the state ready after a failed wait.
main_wait_Optimistic ==
  /\ phase = "wait"
  /\ LET r == wait_for_tcp(elapsed, BACKEND_TCP_WAIT) IN
       IF ~r.done
       THEN /\ elapsed' = r.elapsed
            /\ UNCHANGED <<phase, backend_ready>>
       ELSE IF r.ok
       THEN /\ phase' = "prewarm"
            /\ elapsed' = 0
            /\ UNCHANGED backend_ready
       ELSE /\ phase' = "bind"
            /\ elapsed' = 0
            /\ backend_ready' = TRUE
  /\ UNCHANGED <<backend, listening, monitor, monElapsed, req, everListening>>
  /\ UNCHANGED <<pre_ok, exch, call, setup>>

\* main, step 2: ok = wait_for_tcp("127.0.0.1", UI_PORT, BACKEND_TCP_WAIT)
main_wait ==
  /\ phase = "wait"
  /\ LET r == wait_for_tcp(elapsed, BACKEND_TCP_WAIT) IN
       IF ~r.done
       THEN /\ elapsed' = r.elapsed
            /\ UNCHANGED <<phase, backend_ready>>
       ELSE IF r.ok
       THEN /\ phase' = "prewarm"
            /\ elapsed' = 0
            /\ UNCHANGED backend_ready
       ELSE /\ phase' = "bind"
            /\ elapsed' = 0
            /\ backend_ready' = FALSE
  /\ UNCHANGED <<backend, listening, monitor, monElapsed, req, everListening>>
  /\ UNCHANGED <<pre_ok, exch, call, setup>>

\* main_prewarm with the readiness taken from pre_ok instead of set regardless.
main_prewarm_ByResult ==
  /\ phase = "prewarm"
  /\ \E o \in PrewarmOutcomes :
       LET r == prewarm_local_ui(elapsed, PREWARM_TOTAL, o) IN
         IF ~r.done
         THEN /\ elapsed' = r.elapsed
              /\ UNCHANGED <<phase, backend_ready, pre_ok>>
         ELSE /\ phase' = "bind"
              /\ elapsed' = 0
              /\ pre_ok' = IF r.ok THEN "true" ELSE "false"
              /\ backend_ready' = r.ok
  /\ UNCHANGED <<backend, listening, monitor, monElapsed, req, everListening>>
  /\ UNCHANGED <<exch, call, setup>>

\* main, step 3: pre_ok = prewarm_local_ui(...); _backend_ready = True
main_prewarm ==
  /\ phase = "prewarm"
  /\ \E o \in PrewarmOutcomes :
       LET r == prewarm_local_ui(elapsed, PREWARM_TOTAL, o) IN
         IF ~r.done
         THEN /\ elapsed' = r.elapsed
              /\ UNCHANGED <<phase, backend_ready, pre_ok>>
         ELSE /\ phase' = "bind"
              /\ elapsed' = 0
              /\ pre_ok' = IF r.ok THEN "true" ELSE "false"
              /\ backend_ready' = TRUE
  /\ UNCHANGED <<backend, listening, monitor, monElapsed, req, everListening>>
  /\ UNCHANGED <<exch, call, setup>>

\* main: runner.setup(), site.start() on 0.0.0.0:UI_PORT, create_task(monitor_backend())
main_start_proxy ==
  /\ phase = "bind"
  /\ phase' = "serving"
  /\ listening' = TRUE
  /\ monitor' = "waiting"
  /\ UNCHANGED <<elapsed, backend_ready, backend, monElapsed, req, everListening>>
  /\ UNCHANGED <<pre_ok, exch, call, setup>>

\* main: site.start() raises OSError (the address is in use); the exception
\* leaves main before the try block and the process exits with status 1.
main_bind_fails ==
  /\ phase = "bind"
  /\ phase' = "failed"
  /\ UNCHANGED <<elapsed, backend_ready, backend, listening, monitor, monElapsed,
                 req, everListening>>
  /\ UNCHANGED <<pre_ok, exch, call, setup>>

\* LoopFree for a probe that would yield to the event loop.
LoopFree_Always == TRUE

\* ------------------------------------------------------------ event loop
\* The loop's thread is free to resume a coroutine: it is not inside the
\* monitor's blocking wait_for_tcp call.
LoopFree == monitor # "probing"

\* Coroutines of the application run until the process ends.
Running == phase \in {"serving", "stopping"}

\* --------------------------------------------------------------- routing
\* Faulty routing: the catch-all route takes every request.
Route_AllProxy(m, p) == "proxy_handler"

\* app.add_routes([web.get("/health", health_handler)]);
\* app.router.add_route("*", "/{tail:.*}", proxy_handler)
Route(m, p) ==
  IF m = "GET" /\ p = "/health" THEN "health_handler" ELSE "proxy_handler"

\* A client's request reaches the listener and is routed.
client_request(h) ==
  /\ phase = "serving"
  /\ listening
  /\ req[h].pc = "idle"
  /\ \E m \in Methods, p \in Paths :
       req' = [req EXCEPT ![h] =
                 [Idle EXCEPT !.pc = "pending",
                              !.target = IF m = "GET" /\ p = "/health"
                                         THEN "GET /health" ELSE "other",
                              !.handler = Route(m, p)]]
  /\ UNCHANGED <<phase, elapsed, backend_ready, backend, listening, monitor,
                 monElapsed, everListening>>
  /\ UNCHANGED <<pre_ok, exch, call, setup>>

\* -------------------------------------------------------- health_handler
health_handler(h) ==
  /\ Running /\ LoopFree
  /\ req[h].pc = "pending"
  /\ req[h].handler = "health_handler"
  /\ req' = [req EXCEPT ![h] = [@ EXCEPT !.pc = "done", !.status = 200,
                                         !.origin = "proxy", !.text = "ok"]]
  /\ UNCHANGED <<phase, elapsed, backend_ready, backend, listening, monitor,
                 monElapsed, everListening>>
  /\ UNCHANGED <<pre_ok, exch, call, setup>>

\* --------------------------------------------------------- proxy_handler
\* Faulty not-ready branch: the 503 carries no Retry-After header.
NotReadyResponse_NoRetryAfter(r) ==
  [r EXCEPT !.pc = "done", !.status = 503, !.origin = "proxy",
            !.text = "Service unavailable"]

\* The response of the branch "if not _backend_ready".
NotReadyResponse(r) ==
  [r EXCEPT !.pc = "done", !.status = 503, !.origin = "proxy",
            !.retryAfter = RETRY_AFTER, !.text = "Service unavailable"]

\* Faulty classification: no exception reaches the TimeoutError clause.
IsTimeoutError_None(exc) == FALSE

\* Exceptions that are instances of asyncio.TimeoutError: aiohttp raises a
\* subclass of it for the sock_connect and for the sock_read timeout.
IsTimeoutError(exc) == exc \in {"ConnectTimeout", "ReadTimeout"}

\* Faulty generic clause: 502 is returned but _backend_ready is kept.
ExceptClause_NoClear(exc) ==
  IF IsTimeoutError(exc)
  THEN [status |-> 504, text |-> "Gateway timeout", clear |-> FALSE]
  ELSE [status |-> 502, text |-> "Bad gateway", clear |-> FALSE]

\* The two except clauses: what the handler returns and whether it clears
\* _backend_ready.
ExceptClause(exc) ==
  IF IsTimeoutError(exc)
  THEN [status |-> 504, text |-> "Gateway timeout", clear |-> FALSE]
  ELSE [status |-> 502, text |-> "Bad gateway", clear |-> TRUE]

\* Raise with one more upstream attempt before the error response.
Raise_Retry(h, exc) ==
  IF req[h].attempts < 2
  THEN /\ req' = [req EXCEPT ![h] = [@ EXCEPT !.pc = "connecting", !.attempts = @ + 1]]
       /\ UNCHANGED backend_ready
  ELSE LET c == ExceptClause(exc) IN
    /\ req' = [req EXCEPT ![h] = [@ EXCEPT !.pc = "done", !.cause = exc,
                                           !.status = c.status, !.origin = "proxy",
                                           !.text = c.text]]
    /\ backend_ready' = IF c.clear THEN FALSE ELSE backend_ready

\* An exception exc is raised inside the try block of handler h.
Raise(h, exc) ==
  LET c == ExceptClause(exc) IN
    /\ req' = [req EXCEPT ![h] = [@ EXCEPT !.pc = "done", !.cause = exc,
                                           !.status = c.status, !.origin = "proxy",
                                           !.text = c.text]]
    /\ backend_ready' = IF c.clear THEN FALSE ELSE backend_ready

\* Entry of proxy_handler up to "await request.read()".
proxy_handler_start(h) ==
  /\ Running /\ LoopFree
  /\ req[h].pc = "pending"
  /\ req[h].handler = "proxy_handler"
  /\ IF ~backend_ready
     THEN req' = [req EXCEPT ![h] = NotReadyResponse(@)]
     ELSE req' = [req EXCEPT ![h] = [@ EXCEPT !.pc = "reading"]]
  /\ UNCHANGED <<phase, elapsed, backend_ready, backend, listening, monitor,
                 monElapsed, everListening>>
  /\ UNCHANGED <<pre_ok, exch, call, setup>>

\* request.read() returns and session.request(...) is issued; or the client
\* is gone and request.read() raises, outside the try block.
proxy_handler_read(h) ==
  /\ Running /\ LoopFree
  /\ req[h].pc = "reading"
  /\ \E ok \in BOOLEAN :
       IF ok
       THEN req' = [req EXCEPT ![h] = [@ EXCEPT !.pc = "connecting",
                                                !.attempts = @ + 1]]
       ELSE req' = [req EXCEPT ![h] = [@ EXCEPT !.pc = "raised",
                                                !.cause = "ClientGone"]]
  /\ UNCHANGED <<phase, elapsed, backend_ready, backend, listening, monitor,
                 monElapsed, everListening>>
  /\ UNCHANGED <<pre_ok, exch, call, setup>>

\* The connect phase of session.request ends.
proxy_handler_connect(h) ==
  /\ Running /\ LoopFree
  /\ req[h].pc = "connecting"
  /\ IF Connected(ConnectResult)
     THEN /\ req' = [req EXCEPT ![h] = [@ EXCEPT !.pc = "awaiting"]]
          /\ UNCHANGED backend_ready
     ELSE IF ConnectResult = "refused"
     THEN Raise(h, "ConnectionRefused")
     ELSE Raise(h, "ConnectTimeout")
  /\ UNCHANGED <<phase, elapsed, backend, listening, monitor, monElapsed,
                 everListening>>
  /\ UNCHANGED <<pre_ok, exch, call, setup>>

\* The upstream's status line and headers arrive (async with ... as resp),
\* or the read times out, or the connection breaks.
proxy_handler_headers(h) ==
  /\ Running /\ LoopFree
  /\ req[h].pc = "awaiting"
  /\ \/ \E s \in UpstreamStatuses :
          /\ req' = [req EXCEPT ![h] = [@ EXCEPT !.pc = "preparing", !.upstream = s]]
          /\ UNCHANGED backend_ready
     \/ Raise(h, "ReadTimeout")
     \/ Raise(h, "UpstreamReset")
  /\ UNCHANGED <<phase, elapsed, backend, listening, monitor, monElapsed,
                 everListening>>
  /\ UNCHANGED <<pre_ok, exch, call, setup>>

\* await response.prepare(request): the headers go to the client, or the
\* client's transport is closing and the write raises.
proxy_handler_prepare(h) ==
  /\ Running /\ LoopFree
  /\ req[h].pc = "preparing"
  /\ \/ /\ req' = [req EXCEPT ![h] = [@ EXCEPT !.pc = "streaming",
                                               !.prepared = req[h].upstream]]
        /\ UNCHANGED backend_ready
     \/ Raise(h, "ClientGone")
  /\ UNCHANGED <<phase, elapsed, backend, listening, monitor, monElapsed,
                 everListening>>
  /\ UNCHANGED <<pre_ok, exch, call, setup>>

\* One turn of "async for chunk in resp.content.iter_chunked(...)": a chunk
\* is read and written, the body ends (write_eof, return response), the read
\* times out, the upstream breaks, or the write to the client raises.
proxy_handler_stream(h) ==
  /\ Running /\ LoopFree
  /\ req[h].pc = "streaming"
  /\ \/ /\ req' = [req EXCEPT ![h] = [@ EXCEPT !.pc = "done", !.status = req[h].prepared,
                                               !.origin = "backend"]]
        /\ UNCHANGED backend_ready
     \/ Raise(h, "ReadTimeout")
     \/ Raise(h, "UpstreamReset")
     \/ Raise(h, "ClientGone")
  /\ UNCHANGED <<phase, elapsed, backend, listening, monitor, monElapsed,
                 everListening>>
  /\ UNCHANGED <<pre_ok, exch, call, setup>>

\* The handler's task is cancelled at one of its awaits (the server shuts the
\* connection down): CancelledError is not an Exception and leaves the handler.
handler_cancelled(h) ==
  /\ Running /\ LoopFree
  /\ req[h].pc \in {"reading", "connecting", "awaiting", "preparing", "streaming"}
  /\ req' = [req EXCEPT ![h] = [Idle EXCEPT !.pc = "cancelled",
                                            !.target = req[h].target,
                                            !.handler = req[h].handler,
                                            !.cause = "CancelledError"]]
  /\ UNCHANGED <<phase, elapsed, backend_ready, backend, listening, monitor,
                 monElapsed, everListening>>
  /\ UNCHANGED <<pre_ok, exch, call, setup>>

\* The exchange is over and its connection is released.
request_finished(h) ==
  /\ Running
  /\ req[h].pc \in {"done", "raised", "cancelled"}
  /\ req' = [req EXCEPT ![h] = Idle]
  /\ UNCHANGED <<phase, elapsed, backend_ready, backend, listening, monitor,
                 monElapsed, everListening>>
  /\ UNCHANGED <<pre_ok, exch, call, setup>>

\* -------------------------------------------------------- monitor_backend
\* One turn of "while True" up to the call of wait_for_tcp: the task wakes
\* from asyncio.sleep(1.0) and goes back to it when _backend_ready is set.
monitor_backend_check ==
  /\ phase = "serving"
  /\ monitor = "waiting"
  /\ IF backend_ready
     THEN UNCHANGED <<monitor, monElapsed>>
     ELSE /\ monitor' = "probing"
          /\ monElapsed' = 0
  /\ UNCHANGED <<phase, elapsed, backend_ready, backend, listening, req, everListening>>
  /\ UNCHANGED <<pre_ok, exch, call, setup>>

\* Faulty monitor: the probe's result is dropped, _backend_ready is never set.
monitor_backend_probe_Forgets ==
  /\ phase = "serving"
  /\ monitor = "probing"
  /\ LET r == wait_for_tcp(monElapsed, MONITOR_TCP_WAIT) IN
       IF ~r.done
       THEN /\ monElapsed' = r.elapsed
            /\ UNCHANGED monitor
       ELSE /\ monitor' = "waiting"
            /\ monElapsed' = 0
  /\ UNCHANGED <<phase, elapsed, backend_ready, backend, listening, req, everListening>>
  /\ UNCHANGED <<pre_ok, exch, call, setup>>

\* Inside wait_for_tcp("127.0.0.1", UI_PORT, 1.0), called without await.
monitor_backend_probe ==
  /\ phase = "serving"
  /\ monitor = "probing"
  /\ LET r == wait_for_tcp(monElapsed, MONITOR_TCP_WAIT) IN
       IF ~r.done
       THEN /\ monElapsed' = r.elapsed
            /\ UNCHANGED <<monitor, backend_ready>>
       ELSE /\ monitor' = "waiting"
            /\ monElapsed' = 0
            /\ backend_ready' = IF r.ok THEN TRUE ELSE backend_ready
  /\ UNCHANGED <<phase, elapsed, backend, listening, req, everListening>>
  /\ UNCHANGED <<pre_ok, exch, call, setup>>

monitor_backend == monitor_backend_check \/ monitor_backend_probe

\* -------------------------------------------------------------- shutdown
\* main is cancelled at "await asyncio.sleep(3600)": finally:
\* monitor_task.cancel(); runner.cleanup() closes the listening socket.
main_shutdown ==
  /\ phase = "serving"
  /\ LoopFree
  /\ phase' = "stopping"
  /\ monitor' = "cancelled"
  /\ listening' = FALSE
  /\ UNCHANGED <<elapsed, backend_ready, backend, monElapsed, req, everListening>>
  /\ UNCHANGED <<pre_ok, exch, call, setup>>

\* runner.cleanup() returns, main returns, asyncio.run ends the process and
\* with it every coroutine.
main_exit ==
  /\ phase = "stopping"
  /\ phase' = "exited"
  /\ req' = [h \in Handlers |-> Idle]
  /\ UNCHANGED <<elapsed, backend_ready, backend, listening, monitor, monElapsed,
                 everListening>>
  /\ UNCHANGED <<pre_ok, exch, call, setup>>

\* SIGTERM: server.py installs no handler for it and asyncio.run handles only
\* SIGINT, so the default disposition ends the process at once, at any point of
\* the program, a blocking probe included.  No except or finally clause runs:
\* the monitor task is not cancelled and runner.cleanup() is not called; the
\* kernel closes the sockets of the dead process.
sigterm ==
  /\ phase = "serving"
  /\ phase' = "killed"
  /\ listening' = FALSE
  /\ monElapsed' = 0
  /\ req' = [h \in Handlers |-> Idle]
  /\ UNCHANGED <<elapsed, backend_ready, backend, monitor, everListening>>
  /\ UNCHANGED <<pre_ok, exch, call, setup>>

\* ------------------------------------------- one forwarded exchange in detail
\* Header lines are pairs <<name, value>> in the order received; a body is a
\* sequence of bytes.
HeaderNames == {"Host", "host", "Accept", "Cookie", "Content-Type", "Connection",
                "connection", "Transfer-Encoding", "keep-alive", "proxy-authenticate",
                "proxy-authorization", "TE", "trailers", "Upgrade"}
HeaderValues == {"1", "2"}
Bytes == {"a", "b"}

SeqsUpTo(S, n) == UNION {[1..k -> S] : k \in 0..n}
HeaderLists == SeqsUpTo(HeaderNames \X HeaderValues, MaxHeaders)
Bodies == SeqsUpTo(Bytes, MaxChunkLen)
\* iter_chunked yields no empty chunk
Chunks == Bodies \ {<<>>}

\* str.lower() on the header names above
lower(k) ==
  CASE k = "Host" -> "host"
    [] k = "Accept" -> "accept"
    [] k = "Cookie" -> "cookie"
    [] k = "Content-Type" -> "content-type"
    [] k = "Connection" -> "connection"
    [] k = "Transfer-Encoding" -> "transfer-encoding"
    [] k = "TE" -> "te"
    [] k = "Upgrade" -> "upgrade"
    [] OTHER -> k

excluded == {"transfer-encoding", "connection", "keep-alive", "proxy-authenticate",
             "proxy-authorization", "te", "trailers", "upgrade"}

\* d[k] = v on a dict kept as the list of its items in insertion order: an
\* existing key keeps its place and takes the new value
dict_set(d, k, v) ==
  IF \E i \in 1..Len(d) : d[i][1] = k
  THEN [i \in 1..Len(d) |-> IF d[i][1] = k THEN <<k, v>> ELSE d[i]]
  ELSE Append(d, <<k, v>>)

\* headers = {k: v for k, v in request.headers.items() if k.lower() != "host"}
RECURSIVE headers_from(_, _)
headers_from(d, items) ==
  IF items = <<>> THEN d
  ELSE LET k == Head(items)[1]
           v == Head(items)[2]
       IN headers_from(IF lower(k) # "host" THEN dict_set(d, k, v) ELSE d, Tail(items))

headers(items) == headers_from(<<>>, items)

\* headers_out = [(k, v) for k, v in resp.headers.items() if k.lower() not in excluded]
SentOn(kv) == lower(kv[1]) \notin excluded
headers_out(items) == SelectSeq(items, SentOn)

\* one turn of the loop over resp.content.iter_chunked: an empty chunk ends the
\* loop, any other chunk is written to the client
write_chunk_SkipsShort(written, chunk) ==
  [break |-> chunk = <<>>,
   written |-> IF Len(chunk) <= 1 THEN written ELSE written \o chunk]

write_chunk(written, chunk) ==
  [break |-> chunk = <<>>,
   written |-> IF chunk = <<>> THEN written ELSE written \o chunk]

ExchangeAt(pc) ==
  [pc |-> pc, client_headers |-> <<>>, data |-> <<>>, headers |-> <<>>,
   sent_data |-> <<>>, resp_headers |-> <<>>, headers_out |-> <<>>,
   chunks |-> 0, body |-> <<>>, written |-> <<>>]

\* lines 198-199 and the arguments of session.request, lines 203-209: the
\* handler builds the upstream headers, reads the whole request body and hands
\* both to the upstream request
exchange_request ==
  /\ exch.pc = "request"
  /\ exch' = [exch EXCEPT !.pc = "upstream",
                          !.headers = headers(exch.client_headers),
                          !.sent_data = exch.data]
  /\ UNCHANGED <<mainVars, call, setup>>

\* line 203: the request has gone out and the handler waits for the response
exchange_sent ==
  /\ exch.pc = "upstream"
  /\ exch' = ExchangeAt("awaiting")
  /\ UNCHANGED <<mainVars, call, setup>>

\* lines 210-225: the response headers arrive and headers_out is built
exchange_response ==
  /\ exch.pc = "awaiting"
  /\ \E rh \in HeaderLists :
       exch' = [ExchangeAt("response") EXCEPT !.resp_headers = rh,
                                             !.headers_out = headers_out(rh)]
  /\ UNCHANGED <<mainVars, call, setup>>

\* line 226: response.prepare sends status and headers_out to the client
exchange_prepare ==
  /\ exch.pc = "response"
  /\ exch' = ExchangeAt("streaming")
  /\ UNCHANGED <<mainVars, call, setup>>

\* lines 227-230: the next chunk of the backend's body is read and relayed
exchange_chunk ==
  /\ exch.pc = "streaming"
  /\ exch.chunks < MaxChunks
  /\ \E c \in Chunks :
       LET w == write_chunk(exch.written, c) IN
         exch' = [exch EXCEPT !.pc = IF w.break THEN "done" ELSE "streaming",
                              !.chunks = @ + 1,
                              !.body = @ \o c,
                              !.written = w.written]
  /\ UNCHANGED <<mainVars, call, setup>>

\* lines 231-232: the body is exhausted, write_eof, return
exchange_eof ==
  /\ exch.pc = "streaming"
  /\ exch' = [exch EXCEPT !.pc = "done"]
  /\ UNCHANGED <<mainVars, call, setup>>

ExchangeInit ==
  /\ InitMain
  /\ call = NoCall
  /\ setup = NoSetup
  /\ \E ch \in HeaderLists, d \in Bodies :
       exch = [ExchangeAt("request") EXCEPT !.client_headers = ch, !.data = d]

ExchangeNext ==
  \/ exchange_request
  \/ exchange_sent
  \/ exchange_response
  \/ exchange_prepare
  \/ exchange_chunk
  \/ exchange_eof

ExchangeSpec == ExchangeInit /\ [][ExchangeNext]_vars

\* ------------------------------------------ one wait_for_tcp call in detail
\* The timeout argument of the call, in ticks; zero and a negative value included.
Timeouts == -1..MaxTimeout

\* One turn of the while loop of the call: the deadline test and, when it
\* passes, one socket.create_connection.
wait_for_tcp_turn ==
  /\ call.pc = "running"
  /\ LET r == wait_for_tcp(call.elapsed, call.timeout) IN
       call' = [call EXCEPT !.pc = IF r.done THEN "returned" ELSE "running",
                            !.elapsed = r.elapsed,
                            !.attempts = IF r.tried THEN @ + 1 ELSE @,
                            !.result = r.ok]
  /\ UNCHANGED <<mainVars, exch, setup>>

WaitInit ==
  /\ phase = "wait"
  /\ elapsed = 0
  /\ backend_ready = FALSE
  /\ backend \in {"down", "up", "stalled"}
  /\ listening = FALSE
  /\ monitor = "none"
  /\ monElapsed = 0
  /\ req = [h \in Handlers |-> Idle]
  /\ everListening = (backend # "down")
  /\ pre_ok = "none"
  /\ exch = NoExchange
  /\ setup = NoSetup
  /\ \E t \in Timeouts :
       call = [pc |-> "running", timeout |-> t, elapsed |-> 0, attempts |-> 0,
               result |-> FALSE]

WaitNext ==
  \/ BackendChange
  \/ wait_for_tcp_turn

\* the thread that called wait_for_tcp keeps running
WaitSpec == WaitInit /\ [][WaitNext]_vars /\ WF_vars(wait_for_tcp_turn)

\* ------------------------------------- one run of the DuckDB setup in detail
\* duckdb_start_and_setup of server.py (run by main in the default executor)
\* and setup_and_start_ui of start_duckdb_ui.py are the same sequence of
\* statements; server.py has one more, SET ui_local_port.
Programs == {"server.py", "start_duckdb_ui.py"}
Extensions == <<"httpfs", "aws", "ui">>

\* What becomes of an exception raised by the statement(s) of a step:
\* "continue" (caught, printed), "exit" (caught, sys.exit(1)), or "uncaught"
\* (the statement is in no try block).
Handled_SecretFatal(step) ==
  CASE step \in {"ext", "glob", "view", "port"} -> "continue"
    [] step \in {"start", "secret"} -> "exit"
    [] OTHER -> "uncaught"

Handled(step) ==
  CASE step \in {"ext", "secret", "glob", "view", "port"} -> "continue"
    [] step = "start" -> "exit"
    [] OTHER -> "uncaught"

\* The setup record after the step labelled label has run with outcome ok and,
\* when control goes on, continues at pc2 with loop indexes i2, j2.  An
\* uncaught exception ends the process with status 1 as well: server.py's
\* __main__ prints the traceback and calls sys.exit(1), and the interpreter
\* ends start_duckdb_ui.py with status 1.
Attempt(step, label, ok, pc2, i2, j2) ==
  LET t == [setup EXCEPT !.attempted = @ \cup {label},
                         !.failed = IF ok THEN @ ELSE @ \cup {label}]
  IN IF ok \/ Handled(step) = "continue"
     THEN [t EXCEPT !.pc = pc2, !.i = i2, !.j = j2]
     ELSE [t EXCEPT !.pc = "exited", !.status = 1]

\* The setup function moves on to new.  In server.py its return lets main go
\* on to the TCP wait, and its exit ends the process before main does.
SetupTo(new) ==
  /\ setup' = new
  /\ phase' = IF new.program = "server.py" /\ new.pc = "exited" THEN "failed"
              ELSE IF new.program = "server.py" /\ new.pc = "done" THEN "wait"
              ELSE phase
  /\ UNCHANGED <<elapsed, backend_ready, backend, listening, monitor, monElapsed,
                 req, everListening, pre_ok, exch, call>>

ConfigPresent == setup.host /\ setup.user /\ setup.password

\* if not (MINIO_PUBLIC_HOST and MINIO_ROOT_USER and MINIO_ROOT_PASSWORD): sys.exit(1)
setup_check_config ==
  /\ setup.pc = "check"
  /\ SetupTo(IF ConfigPresent THEN [setup EXCEPT !.pc = "connect"]
                              ELSE [setup EXCEPT !.pc = "exited", !.status = 1])

\* conn = duckdb.connect(DB_PATH)
setup_connect ==
  /\ setup.pc = "connect"
  /\ \E ok \in BOOLEAN :
       SetupTo([Attempt("connect", <<"connect", 0>>, ok, "configure", 0, 0)
                  EXCEPT !.opened = ok])

\* the block of SET statements
setup_configure ==
  /\ setup.pc = "configure"
  /\ \E ok \in BOOLEAN :
       SetupTo(Attempt("configure", <<"configure", 0>>, ok, "ext", 1, 0))

\* one turn of: for ext in ("httpfs", "aws", "ui"): try: INSTALL; LOAD
setup_extension ==
  /\ setup.pc = "ext"
  /\ \E ok \in BOOLEAN :
       SetupTo(IF setup.i < Len(Extensions)
               THEN Attempt("ext", <<"ext", setup.i>>, ok, "ext", setup.i + 1, 0)
               ELSE Attempt("ext", <<"ext", setup.i>>, ok, "secret", 0, 0))

\* try: CREATE OR REPLACE SECRET ...
setup_secret ==
  /\ setup.pc = "secret"
  /\ \E ok \in BOOLEAN :
       SetupTo(Attempt("secret", <<"secret", 0>>, ok, "glob", 0, 0))

\* try: files = ... glob(...).fetchall()  except: files = []
setup_glob ==
  /\ setup.pc = "glob"
  /\ \E ok \in BOOLEAN, n \in 0..MaxFiles :
       LET m == IF ok THEN n ELSE 0 IN
         SetupTo([Attempt("glob", <<"glob", 0>>, ok,
                          IF m > 0 THEN "view" ELSE "show", 0, IF m > 0 THEN 1 ELSE 0)
                    EXCEPT !.files = m])

\* one turn of: for table_name, s3_path in files: try: CREATE OR REPLACE VIEW
setup_view ==
  /\ setup.pc = "view"
  /\ \E ok \in BOOLEAN :
       SetupTo(IF setup.j < setup.files
               THEN Attempt("view", <<"view", setup.j>>, ok, "view", 0, setup.j + 1)
               ELSE Attempt("view", <<"view", setup.j>>, ok, "show", 0, 0))

\* tables = conn.execute("SHOW TABLES;").fetchall()
setup_show_tables ==
  /\ setup.pc = "show"
  /\ \E ok \in BOOLEAN :
       SetupTo(Attempt("show", <<"show", 0>>, ok,
                       IF setup.program = "server.py" THEN "port" ELSE "start", 0, 0))

\* server.py only: try: SET ui_local_port
setup_ui_port ==
  /\ setup.pc = "port"
  /\ \E ok \in BOOLEAN :
       SetupTo(Attempt("port", <<"port", 0>>, ok, "start", 0, 0))

\* try: CALL start_ui_server() / CALL start_ui()  except: sys.exit(1)
setup_start_ui ==
  /\ setup.pc = "start"
  /\ \E ok \in BOOLEAN :
       SetupTo(Attempt("start", <<"start", 0>>, ok, "done", 0, 0))

SetupInit ==
  /\ InitMain
  /\ exch = NoExchange
  /\ call = NoCall
  /\ \E p \in Programs, h \in BOOLEAN, u \in BOOLEAN, pw \in BOOLEAN :
       setup = [pc |-> "check", program |-> p, host |-> h, user |-> u, password |-> pw,
                i |-> 0, j |-> 0, files |-> 0, opened |-> FALSE, attempted |-> {},
                failed |-> {}, status |-> 0]

\* after the setup of server.py, main goes on with its TCP wait
SetupNext ==
  \/ setup_check_config
  \/ setup_connect
  \/ setup_configure
  \/ setup_extension
  \/ setup_secret
  \/ setup_glob
  \/ setup_view
  \/ setup_show_tables
  \/ setup_ui_port
  \/ setup_start_ui
  \/ BackendChange
  \/ main_wait

SetupSpec == SetupInit /\ [][SetupNext]_vars

\* ------------------------------------------------------------------ Next
Next ==
  \/ BackendChange
  \/ main_setup
  \/ main_wait
  \/ main_prewarm
  \/ main_start_proxy
  \/ main_bind_fails
  \/ main_shutdown
  \/ main_exit
  \/ sigterm
  \/ monitor_backend_check
  \/ monitor_backend_probe
  \/ \E h \in Handlers : client_request(h)
  \/ \E h \in Handlers : health_handler(h)
  \/ \E h \in Handlers : proxy_handler_start(h)
  \/ \E h \in Handlers : proxy_handler_read(h)
  \/ \E h \in Handlers : proxy_handler_connect(h)
  \/ \E h \in Handlers : proxy_handler_headers(h)
  \/ \E h \in Handlers : proxy_handler_prepare(h)
  \/ \E h \in Handlers : proxy_handler_stream(h)
  \/ \E h \in Handlers : handler_cancelled(h)
  \/ \E h \in Handlers : request_finished(h)

Spec == Init /\ [][Next]_vars

\* The event loop resumes every coroutine that is ready to run: the monitor
\* task is resumed when its sleep ends, and its blocking probe returns.
LiveSpec == Init /\ [][Next]_vars /\ WF_vars(monitor_backend)

TypeOK ==
  /\ phase \in {"setup", "wait", "prewarm", "bind", "serving", "stopping", "exited",
                "failed", "killed"}
  /\ backend_ready \in BOOLEAN
  /\ backend \in {"down", "up", "stalled"}
  /\ listening \in BOOLEAN
  /\ monitor \in {"none", "waiting", "probing", "cancelled"}
  /\ pre_ok \in {"none", "true", "false"}

\* =================================================================== claims

\* Handler h leaves "pending": its coroutine starts in this step.
Starts(h) == req[h].pc = "pending" /\ req'[h].pc \notin {"pending", "idle"}

\* C1: every request other than GET /health whose handler starts while
\* _backend_ready is false is answered 503 with Retry-After: 5, has made no
\* upstream request, and the step leaves _backend_ready unchanged.
C1_Gating ==
  /\ [][\A h \in Handlers :
          (Starts(h) /\ req[h].target # "GET /health" /\ ~backend_ready)
            => /\ req'[h].pc = "done"
               /\ req'[h].status = 503
               /\ req'[h].retryAfter = 5
               /\ req'[h].attempts = 0
               /\ backend_ready' = backend_ready]_vars
  /\ [](\A h \in Handlers : req[h].status = 503 => req[h].attempts = 0)

C1_Witness ==
  \E h \in Handlers :
    /\ req[h].target = "other"
    /\ req[h].pc = "done"
    /\ req[h].status = 503
    /\ req[h].retryAfter = 5
    /\ ~backend_ready

\* C2: as long as the backend has never been listening, _backend_ready is
\* false and every answered request other than GET /health got 503.
C2_NotReadyWithoutBackend ==
  ~everListening =>
    /\ ~backend_ready
    /\ \A h \in Handlers :
         (req[h].target = "other" /\ req[h].pc = "done") => req[h].status = 503

\* C3: a refused upstream connection is answered 502 and clears
\* _backend_ready; only main's startup and the monitor's probe set it again,
\* and a request that starts while it is false is answered 503 without an
\* upstream request.
C3_RefusedDowngrades ==
  /\ [][\A h \in Handlers :
          (req[h].pc = "connecting" /\ req'[h].cause = "ConnectionRefused")
            => /\ req'[h].pc = "done"
               /\ req'[h].status = 502
               /\ ~backend_ready']_vars
  /\ [][(~backend_ready /\ backend_ready')
          => (monitor = "probing" \/ phase = "prewarm")]_vars
  /\ [][\A h \in Handlers :
          (Starts(h) /\ req[h].handler = "proxy_handler" /\ ~backend_ready)
            => (req'[h].status = 503 /\ req'[h].attempts = 0)]_vars

C3_Witness ==
  \E h \in Handlers :
    /\ req[h].pc = "done"
    /\ req[h].cause = "ConnectionRefused"
    /\ req[h].status = 502
    /\ req[h].attempts = 1
    /\ ~backend_ready

\* C4: an upstream connection attempt that times out in the connect phase is
\* answered 502 and clears _backend_ready.
C4_ConnectTimeoutIs502 ==
  [][\A h \in Handlers :
       (req[h].pc = "connecting" /\ req'[h].cause = "ConnectTimeout")
         => (req'[h].status = 502 /\ ~backend_ready')]_vars

\* C5: a read timeout after a successful connect and before the headers went
\* to the client is answered 504 and leaves _backend_ready as it was.
C5_ReadTimeoutIs504 ==
  [][\A h \in Handlers :
       (req[h].pc = "awaiting" /\ req'[h].cause = "ReadTimeout")
         => /\ req'[h].pc = "done"
            /\ req'[h].status = 504
            /\ req'[h].prepared = 0
            /\ backend_ready' = backend_ready]_vars

C5_Witness ==
  \E h \in Handlers :
    /\ req[h].pc = "done"
    /\ req[h].cause = "ReadTimeout"
    /\ req[h].prepared = 0
    /\ req[h].status = 504
    /\ backend_ready

\* C6: once response.prepare has sent the relayed headers, the handler
\* produces no 502 or 504 of its own for that request.
C6_NoErrorAfterHeaders ==
  \A h \in Handlers :
    req[h].prepared # 0 => ~(req[h].origin = "proxy" /\ req[h].status \in {502, 504})

\* C7: _backend_ready goes from true to false only in a step of a handler
\* that observed an upstream connection failure; a client that disconnects
\* during response.prepare/response.write causes no response and leaves
\* _backend_ready unchanged.
C7_OnlyUpstreamFailureDowngrades ==
  /\ [][(backend_ready /\ ~backend_ready')
          => \E h \in Handlers :
               /\ req[h].pc # "done" /\ req'[h].pc = "done"
               /\ req'[h].cause \in {"ConnectionRefused", "ConnectTimeout",
                                     "UpstreamReset"}]_vars
  /\ [][\A h \in Handlers :
          (req[h].pc \in {"preparing", "streaming"} /\ req'[h].cause = "ClientGone")
            => (req'[h].status = 0 /\ backend_ready' = backend_ready)]_vars

\* C8: while the proxy is serving, if the backend is up and stays up, a false
\* _backend_ready eventually becomes true; a request that starts while it is
\* true is forwarded, not answered 503, and its connect to a backend that is
\* up does not end in an error response.
C8_Recovery ==
  /\ []((~backend_ready /\ [](backend = "up" /\ phase = "serving"))
          => <>backend_ready)
  /\ [][\A h \in Handlers :
          (Starts(h) /\ req[h].handler = "proxy_handler" /\ backend_ready)
            => (req'[h].pc = "reading" /\ req'[h].status = 0)]_vars
  /\ [][\A h \in Handlers :
          ~(req[h].pc = "connecting" /\ backend = "up" /\ req'[h].pc = "done")]_vars

C8_Witness ==
  /\ phase = "serving"
  /\ backend = "up"
  /\ backend_ready
  /\ monitor = "waiting"
  /\ \E h \in Handlers : req[h].pc = "done" /\ req[h].cause = "ClientGone"
                         /\ req[h].status = 502
  /\ \E h \in Handlers : req[h].pc = "awaiting"

\* C9: GET /health is answered 200 "ok" whatever _backend_ready and the
\* backend are, with no upstream request and _backend_ready unchanged.
C9_Health ==
  [][\A h \in Handlers :
       (Starts(h) /\ req[h].target = "GET /health")
         => /\ req'[h].pc = "done"
            /\ req'[h].status = 200
            /\ req'[h].text = "ok"
            /\ req'[h].attempts = 0
            /\ backend_ready' = backend_ready]_vars

C9_Witness ==
  \E h \in Handlers :
    /\ req[h].target = "GET /health"
    /\ req[h].pc = "done"
    /\ req[h].status = 200
    /\ req[h].text = "ok"
    /\ ~backend_ready
    /\ backend = "down"

\* C10: while the monitor is inside a probe, a request whose handler has not
\* started yet can start: the step of its handler is enabled.
C10_ProbeDoesNotBlock ==
  \A h \in Handlers :
    (monitor = "probing" /\ req[h].pc = "pending")
      => ENABLED (health_handler(h) \/ proxy_handler_start(h))

C12_NotReadyAfterFailedPrewarm ==
  [][pre_ok = "false" /\ ~listening /\ listening' => ~backend_ready']_vars

\* C13: every response of proxy_handler carries 503 (the state was not ready
\* when the handler started), 502 (the upstream connection failed), 504 (the
\* upstream timed out) or the status the backend returned for the one
\* forwarded request; a 302 of the backend is relayed as 302 after a single
\* upstream request.
C13_StatusCodes ==
  /\ [][\A h \in Handlers :
          (Starts(h) /\ req'[h].handler = "proxy_handler" /\ req'[h].status = 503)
            => ~backend_ready]_vars
  /\ [](\A h \in Handlers :
          (req[h].pc = "done" /\ req[h].handler = "proxy_handler") =>
             \/ req[h].origin = "proxy" /\ req[h].status = 503 /\ req[h].attempts = 0
             \/ /\ req[h].origin = "proxy" /\ req[h].status = 502
                /\ req[h].cause \in {"ConnectionRefused", "UpstreamReset"}
             \/ /\ req[h].origin = "proxy" /\ req[h].status = 504
                /\ req[h].cause \in {"ConnectTimeout", "ReadTimeout"}
             \/ /\ req[h].origin = "backend" /\ req[h].status = req[h].upstream
                /\ req[h].attempts = 1)

\* C14: the headers relayed to the client are the backend's header lines whose
\* lower-cased name is not in the hop-by-hop set, each line once, with its
\* value, in the backend's order; the headers handed to the upstream request
\* are the client's header lines whose lower-cased name is not "host", each
\* line once, with its value, in the client's order.
KeptLines(items, drop) ==
  LET Keep(kv) == lower(kv[1]) \notin drop IN SelectSeq(items, Keep)

C14_HeaderFiltering ==
  /\ exch.pc = "response" => exch.headers_out = KeptLines(exch.resp_headers, excluded)
  /\ exch.pc = "upstream" => exch.headers = KeptLines(exch.client_headers, {"host"})

\* C15: when an exchange has completed without error, the bytes written to
\* the client are the bytes of the backend's body, all of them, once and in
\* order, however the body was cut into chunks; and the body handed to the
\* upstream request is the whole body read from the client.
C15_BodyFidelity ==
  /\ exch.pc = "done" => exch.written = exch.body
  /\ exch.pc = "streaming" => exch.written = exch.body
  /\ exch.pc = "upstream" => exch.sent_data = exch.data

C15_Witness ==
  exch.pc = "done" /\ exch.chunks = 2 /\ exch.body = <<"a", "b", "a">>

\* C16: whichever termination signal ends the running proxy, in the state in
\* which the process ends the monitor task has been cancelled and the
\* listener has been closed by the proxy; once cancelled, the monitor stays
\* cancelled (it starts no probe) and the readiness state never becomes true
\* again.
C16_Shutdown ==
  /\ [][(phase \in {"serving", "stopping"} /\ phase' \in {"exited", "killed"})
          => (monitor = "cancelled" /\ ~listening)]_vars
  /\ [][monitor = "cancelled"
          => (monitor' = "cancelled" /\ ~(~backend_ready /\ backend_ready'))]_vars

\* C17: a handler makes at most one upstream request for its client request,
\* whatever the outcome: none when it answers 503, exactly one when it relays
\* the backend's response or answers 502 or 504; the count of attempts of a
\* request only ever goes from 0 to 1, when the handler leaves request.read.
C17_NoRetry ==
  /\ [](\A h \in Handlers :
          /\ req[h].attempts <= 1
          /\ req[h].status = 503 => req[h].attempts = 0
          /\ (req[h].pc = "done" /\ req[h].handler = "proxy_handler" /\ req[h].status # 503)
               => req[h].attempts = 1)
  /\ [][\A h \in Handlers :
          req'[h].attempts > req[h].attempts
            => (req[h].attempts = 0 /\ req[h].pc = "reading" /\ req'[h].pc = "connecting")]_vars

C17_Witness ==
  \E h \in Handlers :
    req[h].pc = "done" /\ req[h].cause = "ConnectionRefused" /\ req[h].attempts = 1

\* C18: a call of wait_for_tcp returns; it returns True in the turn in which
\* an attempt connects, and False only with the deadline reached; every
\* attempt starts before the deadline, so a call with a timeout of zero or
\* less makes no attempt and returns False.
C18_WaitForTcp ==
  /\ <>(call.pc = "returned")
  /\ [](call.pc = "returned" =>
          /\ call.result => call.attempts >= 1
          /\ ~call.result => ~(call.elapsed < call.timeout))
  /\ [](call.timeout <= 0 => (call.attempts = 0 /\ ~call.result))
  /\ [][call'.attempts > call.attempts => call.elapsed < call.timeout]_vars
  /\ [][(call.pc = "running" /\ call.elapsed < call.timeout /\ Connected(ConnectResult)
            /\ call' # call)
          => (call'.pc = "returned" /\ call'.result)]_vars

C18_Witness ==
  call.pc = "returned" /\ call.result /\ call.attempts >= 2

\* C19: when main's wait_for_tcp returns False, main skips the pre-warm and
\* goes on to open the listener and start the monitor with the readiness
\* state false; the listener is opened only by main after the startup wait
\* (and the pre-warm, when run) has returned; and the readiness state
\* becomes true only after a wait_for_tcp probe connected: in the monitor's
\* own probe, or after the pre-warm, which runs only after main's wait
\* connected.
C19_StartupOrder ==
  /\ [][(phase = "wait" /\ ~(elapsed < BACKEND_TCP_WAIT) /\ phase' # "wait")
          => (phase' = "bind" /\ ~backend_ready' /\ pre_ok' = "none")]_vars
  /\ [][(pre_ok = "none" /\ phase = "bind" /\ phase' \notin {"bind", "failed"})
          => (phase' = "serving" /\ listening' /\ monitor' = "waiting"
              /\ ~backend_ready')]_vars
  /\ [][(~listening /\ listening') => phase = "bind"]_vars
  /\ [][(phase # "bind" /\ phase' = "bind") =>
          \/ phase = "wait" /\ ~(elapsed < BACKEND_TCP_WAIT)
          \/ phase = "prewarm" /\ pre_ok' # "none"]_vars
  /\ [][(phase # "prewarm" /\ phase' = "prewarm")
          => (phase = "wait" /\ elapsed < BACKEND_TCP_WAIT /\ Connected(ConnectResult))]_vars
  /\ [][(~backend_ready /\ backend_ready') =>
          \/ phase = "prewarm"
          \/ /\ monitor = "probing" /\ monElapsed < MONITOR_TCP_WAIT
             /\ Connected(ConnectResult)]_vars

C19_Witness ==
  /\ phase = "serving" /\ pre_ok = "none" /\ listening /\ monitor = "waiting"
  /\ ~backend_ready /\ ~everListening

\* C20: a step of the monitor never takes the readiness state from true to
\* false; an iteration that finds it true starts no probe; a probe that ends
\* at its deadline leaves it false; and from the check that starts a probe
\* to the end of that probe no handler takes a step (a request can only
\* arrive, and a finished one leave) and nobody else writes the state, so it
\* is false throughout the probe.
C20_MonitorWritesOnlyReady ==
  /\ [][(phase' = phase /\ (monitor' # monitor \/ monElapsed' # monElapsed))
          => (backend_ready' = backend_ready \/ backend_ready')]_vars
  /\ [][(monitor = "waiting" /\ backend_ready) => monitor' # "probing"]_vars
  /\ [][(monitor = "probing" /\ monitor' = "waiting" /\ ~(monElapsed < MONITOR_TCP_WAIT))
          => ~backend_ready']_vars
  /\ [](monitor = "probing" => ~backend_ready)
  /\ [][(monitor = "probing" /\ phase' = phase) =>
          \A h \in Handlers :
            \/ req'[h] = req[h]
            \/ req[h].pc = "idle" /\ req'[h].pc = "pending"
            \/ req[h].pc \in {"done", "raised", "cancelled"} /\ req'[h] = Idle]_vars

C20_Witness ==
  /\ monitor = "probing" /\ monElapsed > 0
  /\ \E h \in Handlers : req[h].pc = "pending"

\* C21: in both setup functions, a missing MinIO host, user or password ends
\* the process with status 1 before the database is opened and before any
\* statement is attempted; an exception of an extension, of the secret, of
\* the file listing or of a view never ends the setup, and whenever the start
\* of the UI is attempted every extension, the secret, the listing and every
\* listed view have been attempted before; a failed start of the UI ends the
\* process with status 1, and after any exit of the setup main's TCP wait and
\* the listener are not reached.
Label(step, n) == <<step, n>>

C21_SetupErrors ==
  /\ [](~ConfigPresent =>
          /\ ~setup.opened /\ setup.attempted = {}
          /\ setup.pc \in {"check", "exited"}
          /\ setup.pc = "exited" => setup.status = 1)
  /\ [][(setup.pc \in {"ext", "secret", "glob", "view"} /\ setup' # setup)
          => (setup'.pc # "exited" /\ setup'.status = 0)]_vars
  /\ [](Label("start", 0) \in setup.attempted =>
          /\ \A i \in 1..Len(Extensions) : Label("ext", i) \in setup.attempted
          /\ Label("secret", 0) \in setup.attempted
          /\ Label("glob", 0) \in setup.attempted
          /\ \A j \in 1..setup.files : Label("view", j) \in setup.attempted)
  /\ [](setup.pc = "exited" =>
          \/ ~ConfigPresent
          \/ Label("start", 0) \in setup.failed
          \/ setup.failed \cap {Label("connect", 0), Label("configure", 0),
                                 Label("show", 0)} # {})
  /\ [](Label("start", 0) \in setup.failed => (setup.pc = "exited" /\ setup.status = 1))
  /\ [](setup.pc = "exited" => (phase \in {"setup", "failed"} /\ ~listening))
  /\ [](phase \notin {"setup", "failed"} => setup.pc = "done")

C21_Witness ==
  /\ setup.pc = "exited" /\ setup.status = 1 /\ setup.program = "server.py"
  /\ {Label("ext", 1), Label("secret", 0), Label("view", 1), Label("start", 0)}
       \subseteq setup.failed
  /\ Label("view", 2) \in setup.attempted

====
